---- MODULE Spec2Model ----
(***************************************************************************)
(* The request-correlation and result-delivery core of the emotion-driven   *)
(* movie recommender: the web app (gateway, result consumer thread,         *)
(* get_result handlers), the emotion worker and the recommender worker,     *)
(* connected by three durable RabbitMQ queues.                              *)
(***************************************************************************)
EXTENDS Integers, Sequences, FiniteSets, TLC

\* ---------------------------------------------------------------- bounds
MaxRequests == 2      \* request ids uuid4 can mint in one run
MaxCrashes == 1       \* stage-worker process crashes in one run
NHandlers == 2        \* HTTP handler threads of the web app
MaxRows == 2          \* rows of the Peliculas table that carry an embedding
MaxLimit == 4         \* largest `limit` fetch_and_store_movies is called with
MaxPages == 3         \* largest total_pages the film service reports
PageSize == 2         \* most films on one page of the film service
MaxInjected == 1      \* foreign messages put on the queues in one run

\* ------------------------------------------------------ program constants
RecommendLimit == 5   \* callback: get_recommendations_from_db(conn, emotion, limit=5)
prefetch_count == 1   \* channel.basic_qos(prefetch_count=1), in all three consumers
max_retries_recommender == 10   \* worker_recomendador __main__: max_retries = 10
max_retries == 10     \* get_rabbitmq_connection_and_channel: max_retries = 10
BackoffCap == 30      \* get_rabbitmq_connection_and_channel: min(2 ** i, 30)

\* str(uuid.uuid4()): distinct non-empty strings
Tokens == {ToString(i) : i \in 1..MaxRequests}
Handlers == 1..NHandlers
NoneVal == "None"
Queries == {"", "me siento muy triste"}
\* what a client of the gateway may send as 'query': nothing (no key, or null), the
\* empty string, blanks only, a sentence
GatewayQueries == Queries \cup {NoneVal, "   "}
\* the label the classifier gives the one non-empty query
Emotions == {"sadness"}
StageWorkers == {"emotion", "recommender"}
Consumers == StageWorkers \cup {"sink"}

VARIABLES
  cola_estado_usuario,       \* queue: gateway -> emotion worker (ready messages)
  cola_emocion_detectada,    \* queue: emotion worker -> recommender worker
  cola_resultados_finales,   \* queue: recommender worker -> result consumer
  wk,                        \* per consumer: position in its callback, unacked delivery
  RESULTS_CACHE,             \* app.py: {request_id: recommendations}
  RABBITMQ_CHANNEL_PUBLISH,  \* app.py: the gateway's publish channel, or None
  hd,                        \* per HTTP handler thread: position in get_result
  lastResp,                  \* the last response sent by a get_result handler
  minted,                    \* request ids uuid4 has produced so far
  accepted,                  \* history: ids returned to a client with status success
  readyCount,                \* history: ready responses sent per request id
  taken,                     \* history: ids served ready with no sink write since
  overwrote,                 \* history: the store in progress replaced a different payload
  crashes,                   \* stage-worker crashes so far
  broker,                    \* RabbitMQ as the gateway sees it: "up" or "down"
  lastSubmit,                \* the last response of recommend(), where it is observed
  injected,                  \* history: foreign messages put on the queues so far
  poller,                    \* the page's result poller (app.py, script of the HTML page)
  rq,                        \* per HTTP handler thread: position in recommend
  publishedTo,               \* history: per queue name, the request ids published to it
  conn,                      \* per caller of get_rabbitmq_connection_and_channel: the loop
  consumer_thread,           \* app.py: the result consumer thread, "running" or "dead"
  recommender_main,          \* worker_recomendador __main__: the reconnect loop
  loader                     \* worker_inicial: fetch_and_store_movies

\* The page, and recommend seen statement by statement.
periphery == <<poller, rq, conn, consumer_thread, recommender_main, loader>>

vars == <<cola_estado_usuario, cola_emocion_detectada, cola_resultados_finales, wk,
          RESULTS_CACHE, RABBITMQ_CHANNEL_PUBLISH, hd, lastResp, minted, accepted,
          readyCount, taken, overwrote, crashes, broker, lastSubmit, injected, periphery,
          publishedTo>>

queues == <<cola_estado_usuario, cola_emocion_detectada, cola_resultados_finales,
            publishedTo>>
history == <<readyCount, taken, overwrote>>
web == <<RESULTS_CACHE, hd, lastResp>>
probe == <<broker, lastSubmit, injected, periphery>>

\* ------------------------------------------------------------- python values
\* Python truthiness of a field read with data.get(...): None and "" are falsy.
Falsy(x) == x = NoneVal \/ x = ""

\* data.get(k) on a parsed JSON object: None when the key is missing or null.
Get(data, k) == IF k \in DOMAIN data THEN data[k] ELSE NoneVal

\* A message body that json.loads turns into a dict is the record of its keys. Any other
\* body is a record with the one key raw, holding its text.
InvalidJson == {"{not json"}

NonObjectJson == {"[]"}

\* json.loads(body) raises json.JSONDecodeError.
JSONDecodeError(body) == "raw" \in DOMAIN body /\ body.raw \in InvalidJson

\* json.loads(body) returns a value that is not a dict: data.get raises AttributeError.
NotADict(body) == "raw" \in DOMAIN body /\ body.raw \in NonObjectJson

\* dict operations on RESULTS_CACHE
DictSet(d, k, v) == [x \in DOMAIN d \cup {k} |-> IF x = k THEN v ELSE d[x]]

DictDel(d, k) == [x \in DOMAIN d \ {k} |-> d[x]]

EmptyDict == [x \in {} |-> NoneVal]

\* lookupRaised: the catalog query of the delivery in progress raised (recommender).
\* unsettled: the deliveries the broker handed to the consumer and that it has neither
\* acked nor nacked.
IdleWorker == [pc |-> "idle", msg |-> NoneVal, published |-> FALSE,
               lookupRaised |-> FALSE, unsettled |-> 0]

IdleHandler == [pc |-> "idle", rid |-> "", afterReady |-> FALSE]

\* History tag of a terminal message: the request its list was computed for and what
\* the catalog lookup answered ("rows", or "empty": no rows or a swallowed error), and
\* the positions of the list whose synopsis the rewrite service rewrote. No action
\* reads it.
NoGhost == [origin |-> "", lookup |-> "none", rewritten |-> {}, found |-> 0]

GhostOf(data) == IF "ghost" \in DOMAIN data THEN data.ghost ELSE NoGhost

\* A response of recommend(): the HTTP status, the request_id of the body (None when
\* the body has none) and, as history, the query that was submitted.
SubmitResponse(code, t, q) == [code |-> code, request_id |-> t, query |-> q]

NoSubmit == SubmitResponse(0, NoneVal, NoneVal)

NoResp == [rid |-> "", status |-> "none", recommendations |-> <<>>, ghost |-> NoGhost,
           afterReady |-> FALSE]

\* The page before a query is sent: no timer, no fetch in flight.  sent and events
\* are history: requests issued so far, and which stop events have happened.
IdlePoller ==
  [pollingInterval |-> NoneVal, pollingAttempts |-> 0, rid |-> NoneVal,
   inflight |-> 0, sent |-> 0, events |-> {}]

\* The callers of get_rabbitmq_connection_and_channel: the publish connection (lines
\* 487 and 517) and the result consumer thread (line 66).
Connectors == {"publish", "consumer"}

\* i is the loop variable; slept, before and failures are history: the last delay
\* slept, the one before it, and the failed attempts so far.
NotConnecting == [pc |-> "idle", i |-> 0, slept |-> 0, before |-> 0, failures |-> 0]

\* The recommender worker inside start_consuming, no failure so far.  attempt is the
\* loop's counter; publishedAtFirstFailure is history: the ids the worker had
\* published terminal messages for when it failed the first time.
Consuming == [pc |-> "consuming", attempt |-> 0, publishedAtFirstFailure |-> {}]

\* fetch_and_store_movies before it is called.  submitted is history: the films handed
\* to cursor.executemany so far.
NotLoading ==
  [pc |-> "idle", limit |-> 0, total_pages |-> 0, page |-> 0, total_loaded |-> 0,
   submitted |-> 0]

\* A handler thread that is not inside recommend.
IdleRecommend == [pc |-> "idle", query |-> NoneVal, request_id |-> NoneVal]

Init ==
  /\ cola_estado_usuario = <<>>
  /\ cola_emocion_detectada = <<>>
  /\ cola_resultados_finales = <<>>
  /\ wk = [w \in Consumers |-> IdleWorker]
  /\ RESULTS_CACHE = EmptyDict
  /\ broker \in {"up", "down"}
  /\ RABBITMQ_CHANNEL_PUBLISH = IF broker = "up" THEN "open" ELSE NoneVal
  /\ hd = [h \in Handlers |-> IdleHandler]
  /\ lastResp = NoResp
  /\ minted = {}
  /\ accepted = {}
  /\ readyCount = [t \in Tokens |-> 0]
  /\ taken = {}
  /\ overwrote = FALSE
  /\ crashes = 0
  /\ lastSubmit = NoSubmit
  /\ injected = {}
  /\ poller = IdlePoller
  /\ rq = [h \in Handlers |-> IdleRecommend]
  /\ conn = [c \in Connectors |-> NotConnecting]
  /\ consumer_thread = "running"
  /\ recommender_main = Consuming
  /\ loader = NotLoading
  /\ publishedTo = [name \in {"cola_estado_usuario", "cola_emocion_detectada",
                               "cola_resultados_finales"} |-> {}]

\* ------------------------------------------------------------ queue names
\* app.py
QUEUE_NAME_EMOTION == "cola_estado_usuario"

QUEUE_NAME_RESULTS == "cola_resultados_finales"

\* worker_emotion.py
QUEUE_NAME == "cola_estado_usuario"

\* Faulty variant of NEXT_QUEUE_NAME: the emotion worker spells its output queue
\* differently from the recommender worker's input queue.
NEXT_QUEUE_NAME_misspelt == "cola_emocion_detectadas"

NEXT_QUEUE_NAME == "cola_emocion_detectada"

\* worker_recomendador.py
QUEUE_NAME_IN == "cola_emocion_detectada"

QUEUE_NAME_OUT == "cola_resultados_finales"

\* basic_consume(queue=...): the name of the queue each consumer takes its messages from.
ConsumedBy(w) ==
  CASE w = "emotion" -> QUEUE_NAME
    [] w = "recommender" -> QUEUE_NAME_IN
    [] w = "sink" -> QUEUE_NAME_RESULTS

\* The broker's queue of a given name; a name no consumer declared holds nothing a
\* consumer will ever see.
QueueNamed(name) ==
  CASE name = "cola_estado_usuario" -> cola_estado_usuario
    [] name = "cola_emocion_detectada" -> cola_emocion_detectada
    [] name = "cola_resultados_finales" -> cola_resultados_finales
    [] OTHER -> <<>>

\* The three queues with the queue of the given name replaced by q.
WithQueue(name, q) ==
  <<IF name = "cola_estado_usuario" THEN q ELSE cola_estado_usuario,
    IF name = "cola_emocion_detectada" THEN q ELSE cola_emocion_detectada,
    IF name = "cola_resultados_finales" THEN q ELSE cola_resultados_finales>>

QueuesBecome(qs) ==
  /\ cola_estado_usuario' = qs[1]
  /\ cola_emocion_detectada' = qs[2]
  /\ cola_resultados_finales' = qs[3]

\* A delivery, a requeue or a foreign publish: the queues change, the history of the
\* services' publishes does not.
SetQueues(qs) == QueuesBecome(qs) /\ UNCHANGED publishedTo

\* basic_publish(exchange='', routing_key=name, body=...): the default exchange routes
\* the message to the queue of that name.
Publish(name, body) ==
  /\ QueuesBecome(WithQueue(name, Append(QueueNamed(name), body)))
  /\ publishedTo' = [n \in DOMAIN publishedTo \cup {name} |->
                       IF n = name
                       THEN (IF n \in DOMAIN publishedTo THEN publishedTo[n] ELSE {})
                              \cup {Get(body, "request_id")}
                       ELSE publishedTo[n]]

\* ------------------------------------------------------------ the gateway
\* basic_publish(..., properties=pika.BasicProperties(delivery_mode=2)): the message
\* is marked persistent.
Persistent(body) == body @@ [delivery_mode |-> 2]

\* The response of recommend() is kept in lastSubmit by the runs that observe the
\* gateway (obs); the other runs leave lastSubmit alone.
Reply(obs, r) == lastSubmit' = IF obs THEN r ELSE lastSubmit

\* Faulty variant of recommend_rejected: the query is validated before the channel is
\* tested.
recommend_rejected_validates_first(q, obs) ==
  /\ RABBITMQ_CHANNEL_PUBLISH = NoneVal \/ Falsy(q)
  /\ Reply(obs, SubmitResponse(IF Falsy(q) THEN 400 ELSE 503, NoneVal, q))
  /\ UNCHANGED <<queues, wk, web, RABBITMQ_CHANNEL_PUBLISH, minted, accepted, history,
                 crashes, broker, injected, periphery>>

\* recommend() when the publish channel is None (503) or, the channel being there,
\* the query is falsy (400): nothing is minted and nothing is published.
recommend_rejected(q, obs) ==
  /\ RABBITMQ_CHANNEL_PUBLISH = NoneVal \/ Falsy(q)
  /\ Reply(obs, SubmitResponse(IF RABBITMQ_CHANNEL_PUBLISH = NoneVal THEN 503 ELSE 400,
                               NoneVal, q))
  /\ UNCHANGED <<queues, wk, web, RABBITMQ_CHANNEL_PUBLISH, minted, accepted, history,
                 crashes, broker, injected, periphery>>

\* Faulty variant of recommend_published: the success response is sent and the message
\* is not published.
recommend_published_drops(q, obs) ==
  /\ RABBITMQ_CHANNEL_PUBLISH # NoneVal
  /\ broker = "up"
  /\ ~Falsy(q)
  /\ \E t \in Tokens \ minted :
       /\ minted' = minted \cup {t}
       /\ accepted' = accepted \cup {t}
       /\ Reply(obs, SubmitResponse(200, t, q))
  /\ UNCHANGED <<queues, wk, web, RABBITMQ_CHANNEL_PUBLISH, history, crashes, broker,
                 injected, periphery>>

\* recommend() when basic_publish succeeds: one persistent message in the first queue,
\* and the request id is returned to the client (200).
recommend_published(q, obs) ==
  /\ RABBITMQ_CHANNEL_PUBLISH # NoneVal
  /\ broker = "up"
  /\ ~Falsy(q)
  /\ \E t \in Tokens \ minted :
       /\ minted' = minted \cup {t}
       /\ Publish(QUEUE_NAME_EMOTION, Persistent([query |-> q, request_id |-> t]))
       /\ accepted' = accepted \cup {t}
       /\ Reply(obs, SubmitResponse(200, t, q))
  /\ UNCHANGED <<wk, web, RABBITMQ_CHANNEL_PUBLISH, history, crashes, broker,
                 injected, periphery>>

\* recommend() when basic_publish raises (the broker is down, or the idle connection
\* was closed): the handler calls get_rabbitmq_connection_and_channel once, which
\* succeeds when the broker is reachable and otherwise leaves the channel None, and
\* answers 500 without a request id.
recommend_publish_raises(q, obs) ==
  /\ RABBITMQ_CHANNEL_PUBLISH # NoneVal
  /\ ~Falsy(q)
  /\ \E t \in Tokens \ minted : minted' = minted \cup {t}
  /\ RABBITMQ_CHANNEL_PUBLISH' = IF broker = "up" THEN "open" ELSE NoneVal
  /\ Reply(obs, SubmitResponse(500, NoneVal, q))
  /\ UNCHANGED <<queues, wk, web, accepted, history, crashes, broker, injected, periphery>>

recommend ==
  \E q \in Queries :
    \/ recommend_rejected(q, FALSE)
    \/ recommend_published(q, FALSE)
    \/ recommend_publish_raises(q, FALSE)

\* recommend() with its response observed, for every kind of query a client can send.
Submit ==
  \E q \in GatewayQueries :
    \/ recommend_rejected(q, TRUE)
    \/ recommend_published(q, TRUE)
    \/ recommend_publish_raises(q, TRUE)

\* recommend, lines 451-462, in handler thread h: the global channel is read and
\* tested, then the query, then the id is minted.
RecommendCheck(h, q) ==
  /\ rq[h].pc = "idle"
  /\ IF RABBITMQ_CHANNEL_PUBLISH = NoneVal \/ Falsy(q)
     THEN /\ lastSubmit' = SubmitResponse(IF RABBITMQ_CHANNEL_PUBLISH = NoneVal
                                          THEN 503 ELSE 400, NoneVal, q)
          /\ UNCHANGED <<rq, minted>>
     ELSE /\ \E t \in Tokens \ minted :
               /\ minted' = minted \cup {t}
               /\ rq' = [rq EXCEPT ![h] = [pc |-> "publishing", query |-> q,
                                           request_id |-> t]]
          /\ UNCHANGED lastSubmit
  /\ UNCHANGED <<queues, wk, web, RABBITMQ_CHANNEL_PUBLISH, accepted, history,
                 crashes, broker, injected, poller, conn,
                 consumer_thread, recommender_main, loader>>

\* recommend, lines 464-494, in handler thread h: the global channel is read again
\* for basic_publish.  If it is None by now (AttributeError) or the broker is down,
\* the except clause reassigns the global: a new channel, or None.
RecommendPublish(h) ==
  /\ rq[h].pc = "publishing"
  /\ IF RABBITMQ_CHANNEL_PUBLISH # NoneVal /\ broker = "up"
     THEN /\ Publish(QUEUE_NAME_EMOTION,
                     Persistent([query |-> rq[h].query,
                                 request_id |-> rq[h].request_id]))
          /\ accepted' = accepted \cup {rq[h].request_id}
          /\ lastSubmit' = SubmitResponse(200, rq[h].request_id, rq[h].query)
          /\ UNCHANGED RABBITMQ_CHANNEL_PUBLISH
     ELSE /\ RABBITMQ_CHANNEL_PUBLISH' = IF broker = "up" THEN "open" ELSE NoneVal
          /\ lastSubmit' = SubmitResponse(500, NoneVal, rq[h].query)
          /\ UNCHANGED <<queues, accepted>>
  /\ rq' = [rq EXCEPT ![h] = IdleRecommend]
  /\ UNCHANGED <<wk, web, minted, history, crashes, broker, injected, poller, conn,
                 consumer_thread, recommender_main, loader>>

\* RabbitMQ becomes unreachable. The gateway's channel object stays as it is: pika
\* notices the loss at the next basic_publish.
BrokerDown ==
  /\ broker = "up"
  /\ broker' = "down"
  /\ UNCHANGED <<queues, wk, web, RABBITMQ_CHANNEL_PUBLISH, minted, accepted, history,
                 crashes, lastSubmit, injected, periphery>>

\* RabbitMQ is reachable again.
BrokerUp ==
  /\ broker = "down"
  /\ broker' = "up"
  /\ UNCHANGED <<queues, wk, web, RABBITMQ_CHANNEL_PUBLISH, minted, accepted, history,
                 crashes, lastSubmit, injected, periphery>>

\* ------------------------------------------------------------- the broker
InputQueue(w) == QueueNamed(ConsumedBy(w))

\* The three queues with the input queue of consumer w replaced by q.
WithInput(w, q) == WithQueue(ConsumedBy(w), q)

\* Faulty variant of Deliver: no basic_qos, the broker pushes a message to a consumer
\* whatever it holds unsettled.
Deliver_no_qos(w) ==
  /\ w = "sink" => consumer_thread = "running"
  /\ w = "recommender" => recommender_main.pc = "consuming"
  /\ InputQueue(w) # <<>>
  /\ wk' = [wk EXCEPT ![w] = [pc |-> "recv", msg |-> Head(InputQueue(w)),
                              published |-> FALSE, lookupRaised |-> FALSE,
                              unsettled |-> wk[w].unsettled + 1]]
  /\ SetQueues(WithInput(w, Tail(InputQueue(w))))
  /\ UNCHANGED <<web, RABBITMQ_CHANNEL_PUBLISH, minted, accepted, history, crashes, probe>>

\* Faulty variant of Deliver: the result queue is consumed whether or not the thread
\* that was started for it is still there (a supervisor has started another).
Deliver_supervised(w) ==
  /\ w = "recommender" => recommender_main.pc = "consuming"
  /\ wk[w].unsettled < prefetch_count
  /\ InputQueue(w) # <<>>
  /\ wk' = [wk EXCEPT ![w] = [pc |-> "recv", msg |-> Head(InputQueue(w)),
                              published |-> FALSE, lookupRaised |-> FALSE,
                              unsettled |-> wk[w].unsettled + 1]]
  /\ SetQueues(WithInput(w, Tail(InputQueue(w))))
  /\ UNCHANGED <<web, RABBITMQ_CHANNEL_PUBLISH, minted, accepted, history, crashes, probe>>

\* basic_consume with basic_qos(prefetch_count=1): the broker hands the head of the
\* queue to a consumer that holds fewer than prefetch_count unsettled deliveries.
\* The result queue has the one consumer that start_result_consumer registered.
Deliver(w) ==
  /\ w = "sink" => consumer_thread = "running"
  /\ w = "recommender" => recommender_main.pc = "consuming"
  /\ wk[w].unsettled < prefetch_count
  /\ InputQueue(w) # <<>>
  /\ wk' = [wk EXCEPT ![w] = [pc |-> "recv", msg |-> Head(InputQueue(w)),
                              published |-> FALSE, lookupRaised |-> FALSE,
                              unsettled |-> wk[w].unsettled + 1]]
  /\ SetQueues(WithInput(w, Tail(InputQueue(w))))
  /\ UNCHANGED <<web, RABBITMQ_CHANNEL_PUBLISH, minted, accepted, history, crashes, probe>>

\* Faulty variant of Requeue: the unsettled delivery is dropped instead of requeued
\* (requeue=False).
RequeueDrops(w) == WithInput(w, InputQueue(w))

\* basic_nack(requeue=True), and the broker's requeue of an unacked delivery when the
\* consumer's connection dies: the message goes back to the head of its queue.
Requeue(w) == WithInput(w, <<wk[w].msg>> \o InputQueue(w))

\* Faulty variant of Settle: the callback returns without basic_ack or basic_nack.
Settle_forgets(w) ==
  [wk EXCEPT ![w] = [IdleWorker EXCEPT !.unsettled = wk[w].unsettled]]

\* A settled delivery: the consumer is idle again and holds no message.
Settle(w) == [wk EXCEPT ![w] = IdleWorker]

\* ------------------------------------------------------ the emotion worker
\* Faulty variant of EmotionInvalid: only the text is tested (`if not texto`).
EmotionInvalid_ignores_id(data) == Falsy(Get(data, "query"))

\* callback, line 54: `if not texto or not request_id`.
EmotionInvalid(data) == Falsy(Get(data, "query")) \/ Falsy(Get(data, "request_id"))

\* Faulty variant of EmotionOutput: the worker stamps the message with an id of its own.
EmotionOutput_own_id(data, emocion) ==
  [emotion |-> emocion, request_id |-> "otro", query |-> Get(data, "query")]

\* Faulty variant of EmotionOutput: the message goes out under a fresh id of the
\* worker's own choosing.
EmotionOutput_other_id(data, emocion) ==
  [emotion |-> emocion,
   request_id |-> CHOOSE u \in Tokens : u # Get(data, "request_id"),
   query |-> Get(data, "query")]

\* callback, lines 68-77: the message published to cola_emocion_detectada.
EmotionOutput(data, emocion) ==
  [emotion |-> emocion, request_id |-> Get(data, "request_id"),
   query |-> Get(data, "query")]

\* Faulty variant of EmotionProcess: basic_ack is issued before the publish, and the publish
\* does not follow.
EmotionProcess_acks_first ==
  /\ wk["emotion"].pc = "recv"
  /\ wk' = Settle("emotion")
  /\ UNCHANGED <<queues, web, RABBITMQ_CHANNEL_PUBLISH, minted, accepted, history,
                 crashes, probe>>

\* callback up to basic_publish, or up to the settlement of a message it does not
\* process: a body that is valid JSON but no dict raises AttributeError at data.get
\* and is nacked with requeue (lines 84-87); a body that is no JSON (lines 81-83) or
\* lacks a field (lines 54-57) is acked; otherwise the classifier returns a label and
\* the enriched message is published.
EmotionProcess ==
  /\ wk["emotion"].pc = "recv"
  /\ IF NotADict(wk["emotion"].msg)
     THEN /\ SetQueues(Requeue("emotion"))
          /\ wk' = Settle("emotion")
     ELSE IF JSONDecodeError(wk["emotion"].msg) \/ EmotionInvalid(wk["emotion"].msg)
     THEN /\ wk' = Settle("emotion")
          /\ UNCHANGED queues
     ELSE \E emocion \in Emotions :
            /\ Publish(NEXT_QUEUE_NAME,
                       Persistent(EmotionOutput(wk["emotion"].msg, emocion)))
            /\ wk' = [wk EXCEPT !["emotion"].pc = "published",
                                !["emotion"].published = TRUE]
  /\ UNCHANGED <<web, RABBITMQ_CHANNEL_PUBLISH, minted, accepted, history, crashes, probe>>

\* callback, lines 84-87: analyzer.predict raises on a valid message; the delivery is
\* nacked with requeue and nothing is published.
EmotionCapabilityFails ==
  /\ wk["emotion"].pc = "recv"
  /\ ~NotADict(wk["emotion"].msg)
  /\ ~JSONDecodeError(wk["emotion"].msg)
  /\ ~EmotionInvalid(wk["emotion"].msg)
  /\ SetQueues(Requeue("emotion"))
  /\ wk' = Settle("emotion")
  /\ UNCHANGED <<web, RABBITMQ_CHANNEL_PUBLISH, minted, accepted, history, crashes, probe>>

\* callback, line 79: basic_ack after the publish.
EmotionAck ==
  /\ wk["emotion"].pc = "published"
  /\ wk' = Settle("emotion")
  /\ UNCHANGED <<queues, web, RABBITMQ_CHANNEL_PUBLISH, minted, accepted, history,
                 crashes, probe>>

\* --------------------------------------------------- the recommender worker
Min(a, b) == IF a < b THEN a ELSE b

\* Row i of Peliculas in the order of the similarity query (ascending distance, so
\* descending score); every second row has no synopsis.
CatalogRow(i) ==
  [titulo |-> i, resumen |-> IF i % 2 = 1 THEN "original" ELSE NoneVal,
   score |-> MaxRows - i]

\* Faulty variant of get_recommendations_from_db: the emptiness test is inverted
\* (`if results: return []`).
get_recommendations_from_db_inverted(n, limit, raises) ==
  IF raises \/ n # 0 THEN <<>>
  ELSE [i \in 1..Min(n, limit) |-> CatalogRow(i)]

\* Faulty variant of get_recommendations_from_db: the query has no LIMIT clause.
get_recommendations_from_db_unlimited(n, limit, raises) ==
  IF raises \/ n = 0 THEN <<>>
  ELSE [i \in 1..n |-> CatalogRow(i)]

\* get_recommendations_from_db: the first `limit` rows of a table holding n rows with
\* an embedding, or [] when there are none or the query raises.
get_recommendations_from_db(n, limit, raises) ==
  IF raises \/ n = 0 THEN <<>>
  ELSE [i \in 1..Min(n, limit) |-> CatalogRow(i)]

\* Faulty variant of rewrite_synopsis_with_gemini: a failed call returns an empty text.
rewrite_synopsis_with_gemini_blank(synopsis, ok) ==
  IF ok THEN "personalized" ELSE ""

\* rewrite_synopsis_with_gemini: the rewritten text, or the original when the client
\* is missing or the call raises.
rewrite_synopsis_with_gemini(synopsis, ok) ==
  IF ok THEN "personalized" ELSE synopsis

\* callback, lines 263-280: 'resumen' is dropped, 'sinopsis' and 'emocion_usada' set.
Personalize(movie, emotion, ok) ==
  [titulo |-> movie.titulo, score |-> movie.score,
   sinopsis |-> IF ~Falsy(movie.resumen)
                THEN rewrite_synopsis_with_gemini(movie.resumen, ok)
                ELSE "Sin sinopsis original disponible para personalizar.",
   emocion_usada |-> emotion]

\* callback, line 253: `if not emotion or not request_id`.
RecommenderInvalid(data) ==
  Falsy(Get(data, "emotion")) \/ Falsy(Get(data, "request_id"))

\* callback, lines 283-286: the terminal message.
final_payload(data, recommendations) ==
  [request_id |-> Get(data, "request_id"), recommendations |-> recommendations]

\* The rows whose synopsis the rewrite service is asked to rewrite.
WithSynopsis(rows) == {i \in DOMAIN rows : ~Falsy(rows[i].resumen)}

\* callback up to basic_publish, or up to the settlement of a message it does not
\* process: a body that is valid JSON but no dict raises AttributeError at data.get
\* and is nacked with requeue (lines 304-306); a body that is no JSON is nacked
\* without requeue (lines 301-303) and one that lacks a field is acked (lines
\* 253-256); otherwise the catalog lookup answers (rows, no rows, or an error
\* swallowed into []), each synopsis is rewritten or falls back, and the terminal
\* message is published.
RecommenderProcessOver(sizes) ==
  /\ wk["recommender"].pc = "recv"
  /\ IF NotADict(wk["recommender"].msg)
     THEN /\ SetQueues(Requeue("recommender"))
          /\ wk' = Settle("recommender")
     ELSE IF \/ JSONDecodeError(wk["recommender"].msg)
             \/ RecommenderInvalid(wk["recommender"].msg)
     THEN /\ wk' = Settle("recommender")
          /\ UNCHANGED queues
     ELSE \E n \in sizes, raises \in BOOLEAN :
          \E rows \in {get_recommendations_from_db(n, RecommendLimit, raises)} :
          \E okSet \in SUBSET WithSynopsis(rows) :
            /\ Publish(QUEUE_NAME_OUT,
                        Persistent(final_payload(wk["recommender"].msg,
                          [i \in DOMAIN rows |->
                             Personalize(rows[i], wk["recommender"].msg.emotion,
                                         i \in okSet)]))
                        @@ [ghost |->
                              [origin |-> wk["recommender"].msg.request_id,
                               lookup |-> IF raises \/ n = 0 THEN "empty"
                                          ELSE "rows",
                               rewritten |-> okSet,
                               found |-> Len(rows)]])
            /\ wk' = [wk EXCEPT !["recommender"].pc = "published",
                                !["recommender"].published = TRUE,
                                !["recommender"].lookupRaised = raises]
  /\ UNCHANGED <<web, RABBITMQ_CHANNEL_PUBLISH, minted, accepted, history, crashes, probe>>

\* The callback over a table that is empty or holds MaxRows films.
RecommenderProcess == RecommenderProcessOver({0, MaxRows})

\* The callback over a table that holds fewer films than the limit, or one more.
RecommenderProcessLarge == RecommenderProcessOver({MaxRows, RecommendLimit + 1})

\* callback, lines 259 and 304-306: get_db_connection raises after its retries; the
\* delivery is nacked with requeue and nothing is published.
RecommenderCapabilityFails ==
  /\ wk["recommender"].pc = "recv"
  /\ ~NotADict(wk["recommender"].msg)
  /\ ~JSONDecodeError(wk["recommender"].msg)
  /\ ~RecommenderInvalid(wk["recommender"].msg)
  /\ SetQueues(Requeue("recommender"))
  /\ wk' = Settle("recommender")
  /\ UNCHANGED <<web, RABBITMQ_CHANNEL_PUBLISH, minted, accepted, history, crashes, probe>>

\* callback, line 299: basic_ack after the publish.
RecommenderAck ==
  /\ wk["recommender"].pc = "published"
  /\ wk' = Settle("recommender")
  /\ UNCHANGED <<queues, web, RABBITMQ_CHANNEL_PUBLISH, minted, accepted, history,
                 crashes, probe>>

\* Faulty variant of AttemptAfterConnect: the counter starts again once the worker is
\* connected.
AttemptAfterConnect_reset(attempt) == 0

\* __main__, lines 331-341: a successful connection leaves attempt as it is.
AttemptAfterConnect(attempt) == attempt

\* __main__, lines 343-353: get_rabbitmq_connection or start_consuming raises
\* (AMQPConnectionError, ConnectionClosedByBroker or any other Exception); the worker
\* sleeps, counts the failure and, the while condition failing, leaves the loop.
\* The broker requeues the delivery the worker held, if any; such a requeue counts
\* among the crashes of the run.
RecommenderLoopFails ==
  /\ recommender_main.pc \in {"connecting", "consuming"}
  /\ recommender_main' =
       [pc |-> IF recommender_main.attempt + 1 < max_retries_recommender
               THEN "connecting" ELSE "exited",
        attempt |-> recommender_main.attempt + 1,
        publishedAtFirstFailure |->
          IF recommender_main.attempt = 0 THEN publishedTo[QUEUE_NAME_OUT]
          ELSE recommender_main.publishedAtFirstFailure]
  /\ IF wk["recommender"].pc # "idle"
     THEN /\ crashes < MaxCrashes
          /\ crashes' = crashes + 1
          /\ SetQueues(Requeue("recommender"))
          /\ wk' = Settle("recommender")
     ELSE UNCHANGED <<queues, wk, crashes>>
  /\ UNCHANGED <<web, RABBITMQ_CHANNEL_PUBLISH, minted, accepted, history,
                 broker, lastSubmit, injected, poller, rq, conn, consumer_thread, loader>>

\* __main__, lines 331-341: the connection is made, the queues are declared and the
\* worker consumes again.
RecommenderReconnects ==
  /\ recommender_main.pc = "connecting"
  /\ recommender_main' =
       [recommender_main EXCEPT !.pc = "consuming",
                                !.attempt = AttemptAfterConnect(@)]
  /\ UNCHANGED <<queues, wk, web, RABBITMQ_CHANNEL_PUBLISH, minted, accepted, history,
                 crashes, broker, lastSubmit, injected, poller, rq, conn,
                 consumer_thread, loader>>

\* A stage worker's process dies while it holds an unsettled delivery: the broker
\* requeues the delivery, and the restarted worker consumes again.
Crash(w) ==
  /\ crashes < MaxCrashes
  /\ wk[w].pc # "idle"
  /\ SetQueues(Requeue(w))
  /\ wk' = Settle(w)
  /\ crashes' = crashes + 1
  /\ UNCHANGED <<web, RABBITMQ_CHANNEL_PUBLISH, minted, accepted, history, probe>>

\* -------------------------------------------------------- foreign messages
\* Bodies that no component of the system produces: text that is not JSON, JSON that
\* is not an object, an object without request_id, one whose request_id is empty, and
\* one that has a request_id and none of the other fields.
PoisonKinds == {"invalid_json", "not_object", "no_id", "empty_id", "only_id"}

PoisonBody(kind) ==
  CASE kind = "invalid_json" -> [raw |-> "{not json"]
    [] kind = "not_object" -> [raw |-> "[]"]
    [] kind = "no_id" ->
         [query |-> "me siento muy triste", emotion |-> "sadness",
          recommendations |-> <<>>]
    [] kind = "empty_id" ->
         [query |-> "me siento muy triste", emotion |-> "sadness",
          recommendations |-> <<>>, request_id |-> ""]
    [] kind = "only_id" -> [request_id |-> "intruso"]

\* Some other publisher puts a foreign body on the input queue of consumer w (each
\* kind once per queue).
Inject(w, kind) ==
  /\ Cardinality(injected) < MaxInjected
  /\ <<w, kind>> \notin injected
  /\ SetQueues(WithInput(w, Append(InputQueue(w), PoisonBody(kind))))
  /\ injected' = injected \cup {<<w, kind>>}
  /\ UNCHANGED <<wk, web, RABBITMQ_CHANNEL_PUBLISH, minted, accepted, history, crashes,
                 broker, lastSubmit, periphery>>

\* ------------------------------------------------------ the result consumer
\* Faulty variant of ResultValid: truthiness instead of `is not None`
\* (`if request_id and recommendations`), which rejects an empty list.
ResultValid_truthy(data) ==
  /\ ~Falsy(Get(data, "request_id"))
  /\ "recommendations" \in DOMAIN data
  /\ data.recommendations # <<>>

\* Faulty variant of ResultValid: both fields are tested with `is not None`, so that an
\* empty request_id passes.
ResultValid_not_none(data) ==
  "request_id" \in DOMAIN data /\ "recommendations" \in DOMAIN data

\* result_callback, line 78: `if request_id and recommendations is not None`.
ResultValid(data) ==
  ~Falsy(Get(data, "request_id")) /\ "recommendations" \in DOMAIN data

\* Faulty variant of result_store: one shared slot, every cached id gets the newest payload.
result_store_shared(cache, data) ==
  IF ResultValid(data)
  THEN [x \in DOMAIN cache \cup {data.request_id} |->
          [recommendations |-> data.recommendations, ghost |-> GhostOf(data)]]
  ELSE cache

\* Faulty variant of result_store: RESULTS_CACHE.setdefault(request_id, recommendations), the
\* first payload of an id is kept.
result_store_keep_first(cache, data) ==
  IF ResultValid(data) /\ data.request_id \notin DOMAIN cache
  THEN DictSet(cache, data.request_id,
               [recommendations |-> data.recommendations, ghost |-> GhostOf(data)])
  ELSE cache

\* Faulty variant of result_store: the message is logged and the write is left out.
result_store_discards(cache, data) == cache

\* result_callback, lines 78-83: RESULTS_CACHE[request_id] = recommendations for a
\* valid terminal message; an invalid one leaves the cache as it is.
result_store(cache, data) ==
  IF ResultValid(data)
  THEN DictSet(cache, data.request_id,
               [recommendations |-> data.recommendations, ghost |-> GhostOf(data)])
  ELSE cache

\* result_callback up to the store, or, for a body that json.loads or data.get raises
\* on, the whole callback: the one except clause nacks with requeue (lines 86-89).
SinkStore ==
  /\ wk["sink"].pc = "recv"
  /\ IF JSONDecodeError(wk["sink"].msg) \/ NotADict(wk["sink"].msg)
     THEN /\ SetQueues(Requeue("sink"))
          /\ wk' = Settle("sink")
          /\ UNCHANGED <<RESULTS_CACHE, taken, overwrote>>
     ELSE /\ RESULTS_CACHE' = result_store(RESULTS_CACHE, wk["sink"].msg)
          /\ taken' = IF ResultValid(wk["sink"].msg)
                      THEN taken \ {wk["sink"].msg.request_id} ELSE taken
          /\ overwrote' = /\ ResultValid(wk["sink"].msg)
                          /\ wk["sink"].msg.request_id \in DOMAIN RESULTS_CACHE
                          /\ RESULTS_CACHE[wk["sink"].msg.request_id].recommendations
                               # wk["sink"].msg.recommendations
          /\ wk' = [wk EXCEPT !["sink"].pc = "stored", !["sink"].published = TRUE]
          /\ UNCHANGED queues
  /\ UNCHANGED <<hd, lastResp, RABBITMQ_CHANNEL_PUBLISH, minted, accepted,
                 readyCount, crashes, probe>>

\* result_callback, line 85: basic_ack.
SinkAck ==
  /\ wk["sink"].pc = "stored"
  /\ wk' = Settle("sink")
  /\ overwrote' = FALSE
  /\ UNCHANGED <<queues, web, RABBITMQ_CHANNEL_PUBLISH, minted, accepted, readyCount,
                 taken, crashes, probe>>

\* start_result_consumer, lines 95-100: the connection could not be made, or an
\* exception escaped start_consuming; it is printed, the connection is closed if it
\* is open, and the thread ends.  The broker requeues the delivery the consumer held.
\* Nothing starts the thread again (lines 522-524 run once).
ConsumerThreadDies ==
  /\ consumer_thread = "running"
  /\ consumer_thread' = "dead"
  /\ IF wk["sink"].pc # "idle"
     THEN SetQueues(Requeue("sink")) /\ wk' = Settle("sink")
     ELSE UNCHANGED <<queues, wk>>
  /\ overwrote' = FALSE
  /\ UNCHANGED <<web, RABBITMQ_CHANNEL_PUBLISH, minted, accepted, readyCount, taken,
                 crashes, broker, lastSubmit, injected, poller, rq, conn,
                 recommender_main, loader>>

\* ------------------------------------------------------------- get_result
Response(t, status, entry, after) ==
  [rid |-> t, status |-> status, recommendations |-> entry.recommendations,
   ghost |-> entry.ghost, afterReady |-> after]

NoEntry == [recommendations |-> <<>>, ghost |-> NoGhost]

\* Faulty variant of cache_pop: RESULTS_CACHE[request_id] is read and the key is kept.
cache_pop_keeps(cache, t) == cache

\* Faulty variant of cache_pop: the handler empties the cache (RESULTS_CACHE.clear()).
cache_pop_clears(cache, t) == EmptyDict

\* get_result, line 502: RESULTS_CACHE.pop(request_id) leaves the dict without the key.
cache_pop(cache, t) == DictDel(cache, t)

\* Faulty variant of GetResultCheck: the lookup of an absent id leaves an empty entry
\* under it (as indexing a defaultdict would).
GetResultCheck_inserts(h, t) ==
  /\ hd[h].pc = "idle"
  /\ IF t \in DOMAIN RESULTS_CACHE
     THEN /\ hd' = [hd EXCEPT ![h] = [pc |-> "checked", rid |-> t,
                                      afterReady |-> t \in taken]]
          /\ UNCHANGED <<lastResp, RESULTS_CACHE>>
     ELSE /\ lastResp' = Response(t, "pending", NoEntry, t \in taken)
          /\ RESULTS_CACHE' = DictSet(RESULTS_CACHE, t, NoEntry)
          /\ UNCHANGED hd
  /\ UNCHANGED <<queues, wk, RABBITMQ_CHANNEL_PUBLISH, minted, accepted,
                 history, crashes, probe>>

\* get_result, line 500: the membership test. An absent id is answered pending (202)
\* at once; a present id takes the handler to the pop.
GetResultCheck(h, t) ==
  /\ hd[h].pc = "idle"
  /\ IF t \in DOMAIN RESULTS_CACHE
     THEN /\ hd' = [hd EXCEPT ![h] = [pc |-> "checked", rid |-> t,
                                      afterReady |-> t \in taken]]
          /\ UNCHANGED lastResp
     ELSE /\ lastResp' = Response(t, "pending", NoEntry, t \in taken)
          /\ UNCHANGED hd
  /\ UNCHANGED <<queues, wk, RESULTS_CACHE, RABBITMQ_CHANNEL_PUBLISH, minted, accepted,
                 history, crashes, probe>>

\* get_result, lines 502-508: the pop and the ready response (200). When another
\* handler popped the key since the membership test, pop raises KeyError and the
\* handler ends in an error (500).
GetResultPop(h) ==
  /\ hd[h].pc = "checked"
  /\ hd' = [hd EXCEPT ![h] = IdleHandler]
  /\ IF hd[h].rid \in DOMAIN RESULTS_CACHE
     THEN /\ lastResp' = Response(hd[h].rid, "ready", RESULTS_CACHE[hd[h].rid],
                                  hd[h].afterReady)
          /\ RESULTS_CACHE' = cache_pop(RESULTS_CACHE, hd[h].rid)
          /\ readyCount' = [readyCount EXCEPT ![hd[h].rid] = @ + 1]
          /\ taken' = taken \cup {hd[h].rid}
          /\ UNCHANGED overwrote
     ELSE /\ lastResp' = Response(hd[h].rid, "error", NoEntry, hd[h].afterReady)
          /\ UNCHANGED <<RESULTS_CACHE, history>>
  /\ UNCHANGED <<queues, wk, RABBITMQ_CHANNEL_PUBLISH, minted, accepted, crashes, probe>>

\* ---------------------------------------------------------- the page's poller
\* app.py 221-223
POLLING_INTERVAL == 3000
MAX_POLLING_TIME == 60000
MAX_ATTEMPTS == MAX_POLLING_TIME \div POLLING_INTERVAL

\* What one fetch of /get_result/<id> followed by response.json() can end in: a JSON
\* body with status ready, pending or anything else (the 500 of get_result), a body
\* that is not JSON (SyntaxError), or a rejected fetch, a TypeError whose message
\* is the browser's: "Failed to fetch" in Chrome, another text elsewhere.
FetchOutcomes ==
  {"ready", "pending", "error", "invalid_json", "Failed to fetch",
   "NetworkError when attempting to fetch resource."}

TransportErrors == {"Failed to fetch", "NetworkError when attempting to fetch resource."}

\* app.py 264-265: the submit was accepted, the timer is set.
StartPolling(t) ==
  /\ poller = IdlePoller
  /\ poller' = [poller EXCEPT !.pollingInterval = "set", !.pollingAttempts = 0,
                              !.rid = t]
  /\ UNCHANGED <<queues, wk, web, RABBITMQ_CHANNEL_PUBLISH, minted, accepted, history,
                 crashes, broker, lastSubmit, injected, rq, conn,
                 consumer_thread, recommender_main, loader>>

\* Faulty variant of PollTick: the budget test is `>` instead of `>=`.
PollTick_late ==
  /\ poller.pollingInterval = "set"
  /\ IF poller.pollingAttempts + 1 > MAX_ATTEMPTS
     THEN poller' = [poller EXCEPT !.pollingAttempts = @ + 1,
                                   !.pollingInterval = NoneVal,
                                   !.events = @ \cup {"budget"}]
     ELSE poller' = [poller EXCEPT !.pollingAttempts = @ + 1, !.inflight = @ + 1,
                                   !.sent = @ + 1]
  /\ UNCHANGED <<queues, wk, web, RABBITMQ_CHANNEL_PUBLISH, minted, accepted, history,
                 crashes, broker, lastSubmit, injected, rq, conn,
                 consumer_thread, recommender_main, loader>>

\* pollForResult up to the fetch (346-356): the timer fires every POLLING_INTERVAL
\* whether or not earlier fetches have returned.
PollTick ==
  /\ poller.pollingInterval = "set"
  /\ IF poller.pollingAttempts + 1 >= MAX_ATTEMPTS
     THEN poller' = [poller EXCEPT !.pollingAttempts = @ + 1,
                                   !.pollingInterval = NoneVal,
                                   !.events = @ \cup {"budget"}]
     ELSE poller' = [poller EXCEPT !.pollingAttempts = @ + 1, !.inflight = @ + 1,
                                   !.sent = @ + 1]
  /\ UNCHANGED <<queues, wk, web, RABBITMQ_CHANNEL_PUBLISH, minted, accepted, history,
                 crashes, broker, lastSubmit, injected, rq, conn,
                 consumer_thread, recommender_main, loader>>

\* pollForResult after the await (357-389): one fetch in flight ends.
PollResponse(outcome) ==
  /\ poller.inflight > 0
  /\ poller' =
       [poller EXCEPT
          !.inflight = @ - 1,
          !.pollingInterval =
             IF outcome = "ready" \/ outcome = "Failed to fetch" THEN NoneVal ELSE @,
          !.events = @ \cup (IF outcome = "ready" THEN {"ready"}
                             ELSE IF outcome \in TransportErrors THEN {"transport"}
                             ELSE {})]
  /\ UNCHANGED <<queues, wk, web, RABBITMQ_CHANNEL_PUBLISH, minted, accepted, history,
                 crashes, broker, lastSubmit, injected, rq, conn,
                 consumer_thread, recommender_main, loader>>

\* ------------------------------------------------------ the catalog loader
\* fetch_and_store_movies(conn, url, api_key, limit) is called, against a film service
\* that has total_pages pages: page = 1, total_loaded = 0.
LoaderStart(limit, total_pages) ==
  /\ loader.pc = "idle"
  /\ loader' = [pc |-> "loop", limit |-> limit, total_pages |-> total_pages,
                page |-> 1, total_loaded |-> 0, submitted |-> 0]
  /\ UNCHANGED <<queues, wk, web, RABBITMQ_CHANNEL_PUBLISH, minted, accepted, history,
                 crashes, broker, lastSubmit, injected, poller, rq, conn,
                 consumer_thread, recommender_main>>

\* One pass of the while loop (lines 105-158).  The request fails (break), or the page
\* comes with `results` films (none past the last page): films are counted up to
\* the limit (116-128); if the page is empty or the last one the loop is left
\* (130-131), before the insert; otherwise the counted films are handed to
\* executemany (136-146), which succeeds or raises (break), and the loop is left
\* once the limit is reached (149-150).
LoaderIteration(results, outcome) ==
  /\ loader.pc = "loop"
  /\ IF outcome = "request_error"
     THEN loader' = [loader EXCEPT !.pc = "done"]
     ELSE LET found == IF loader.page <= loader.total_pages THEN results ELSE 0
              counted == Min(found, loader.limit - loader.total_loaded)
              last == found = 0 \/ loader.page >= loader.total_pages
          IN  loader' =
                [loader EXCEPT
                   !.total_loaded = @ + counted,
                   !.submitted = IF last THEN @ ELSE @ + counted,
                   !.page = IF last THEN @ ELSE @ + 1,
                   !.pc = IF \/ last
                             \/ (counted > 0 /\ outcome = "insert_error")
                             \/ loader.total_loaded + counted >= loader.limit
                          THEN "done" ELSE "loop"]
  /\ UNCHANGED <<queues, wk, web, RABBITMQ_CHANNEL_PUBLISH, minted, accepted, history,
                 crashes, broker, lastSubmit, injected, poller, rq, conn,
                 consumer_thread, recommender_main>>

\* ------------------------------------------------------ the connection loop
\* Faulty variant of Backoff: no cap.
Backoff_uncapped(i) == 2 ^ i

\* Line 55: time.sleep(min(2 ** i, 30)).
Backoff(i) == Min(2 ^ i, BackoffCap)

\* get_rabbitmq_connection_and_channel is called: for i in range(max_retries).
ConnectCall(c) ==
  /\ conn[c].pc = "idle"
  /\ conn' = [conn EXCEPT ![c].pc = "trying"]
  /\ UNCHANGED <<queues, wk, web, RABBITMQ_CHANNEL_PUBLISH, minted, accepted, history,
                 crashes, broker, lastSubmit, injected, poller, rq,
                 consumer_thread, recommender_main, loader>>

\* Lines 46-55, one pass of the loop body: BlockingConnection succeeds and the function
\* returns, or raises AMQPConnectionError and the function sleeps.
ConnectAttempt(c) ==
  /\ conn[c].pc = "trying"
  /\ conn' = IF broker = "up"
             THEN [conn EXCEPT ![c].pc = "connected"]
             ELSE [conn EXCEPT ![c].pc = "sleeping",
                               ![c].before = conn[c].slept,
                               ![c].slept = Backoff(conn[c].i),
                               ![c].failures = @ + 1]
  /\ UNCHANGED <<queues, wk, web, RABBITMQ_CHANNEL_PUBLISH, minted, accepted, history,
                 crashes, broker, lastSubmit, injected, poller, rq,
                 consumer_thread, recommender_main, loader>>

\* The sleep ends: the next pass, or, the range being exhausted, line 56: raise.
ConnectWake(c) ==
  /\ conn[c].pc = "sleeping"
  /\ conn' = IF conn[c].i + 1 < max_retries
             THEN [conn EXCEPT ![c].pc = "trying", ![c].i = @ + 1]
             ELSE [conn EXCEPT ![c].pc = "raised"]
  /\ UNCHANGED <<queues, wk, web, RABBITMQ_CHANNEL_PUBLISH, minted, accepted, history,
                 crashes, broker, lastSubmit, injected, poller, rq,
                 consumer_thread, recommender_main, loader>>

\* ---------------------------------------------------------- specifications
Next ==
  \/ recommend
  \/ \E w \in Consumers : Deliver(w)
  \/ EmotionProcess
  \/ EmotionCapabilityFails
  \/ EmotionAck
  \/ RecommenderProcess
  \/ RecommenderCapabilityFails
  \/ RecommenderAck
  \/ \E w \in StageWorkers : Crash(w)
  \/ SinkStore
  \/ SinkAck
  \/ \E h \in Handlers, t \in Tokens : GetResultCheck(h, t)
  \/ \E h \in Handlers : GetResultPop(h)

Spec == Init /\ [][Next]_vars

\* pollForResult, seen from the server: the client of an accepted request calls
\* get_result for its id, one call at a time, until it is answered ready.
ClientPoll(h, t) ==
  /\ t \in accepted
  /\ readyCount[t] = 0
  /\ \A g \in Handlers : hd[g].pc = "checked" => hd[g].rid # t
  /\ GetResultCheck(h, t)

\* The system without infrastructure failure: the broker and the classifier answer,
\* the database is reachable, no process dies.
LiveNext ==
  \/ \E q \in Queries : recommend_rejected(q, FALSE)
  \/ \E q \in Queries : recommend_published(q, FALSE)
  \/ \E w \in Consumers : Deliver(w)
  \/ EmotionProcess
  \/ EmotionAck
  \/ RecommenderProcess
  \/ RecommenderAck
  \/ SinkStore
  \/ SinkAck
  \/ \E h \in Handlers, t \in Tokens : ClientPoll(h, t)
  \/ \E h \in Handlers : GetResultPop(h)

\* start_consuming in the two workers and in the consumer thread: a consumer with a
\* message to take or a callback to finish goes on.
PipelineFairness ==
  /\ \A w \in Consumers : WF_vars(Deliver(w))
  /\ WF_vars(EmotionProcess)
  /\ WF_vars(EmotionAck)
  /\ WF_vars(RecommenderProcess)
  /\ WF_vars(RecommenderAck)
  /\ WF_vars(SinkStore)
  /\ WF_vars(SinkAck)

\* A handler thread finishes the request it has begun.
HandlerFairness == \A h \in Handlers : WF_vars(GetResultPop(h))

\* A client that keeps polling.
PollFairness == \A t \in Tokens : WF_vars(\E h \in Handlers : ClientPoll(h, t))

\* Fair workers, fair consumer thread, clients that keep polling.
LiveSpec ==
  Init /\ [][LiveNext]_vars /\ PipelineFairness /\ HandlerFairness /\ PollFairness

\* Fair workers and consumer thread; nothing obliges a client to poll.
AbandonSpec == Init /\ [][LiveNext]_vars /\ PipelineFairness /\ HandlerFairness

\* The system without infrastructure failure, with clients that call get_result for
\* any id at any time.
PollNext ==
  \/ \E q \in Queries : recommend_published(q, FALSE)
  \/ \E w \in Consumers : Deliver(w)
  \/ EmotionProcess
  \/ EmotionAck
  \/ RecommenderProcess
  \/ RecommenderAck
  \/ SinkStore
  \/ SinkAck
  \/ \E h \in Handlers, t \in Tokens : GetResultCheck(h, t)
  \/ \E h \in Handlers : GetResultPop(h)

PollSpec == Init /\ [][PollNext]_vars

\* The system with a result consumer thread that can end.
ConsumerNext ==
  \/ PollNext
  \/ ConsumerThreadDies

ConsumerSpec == Init /\ [][ConsumerNext]_vars

\* The two stage workers with a recommender whose consumer loop fails and reconnects.
LifetimeNext ==
  \/ \E q \in Queries : recommend_published(q, FALSE)
  \/ \E w \in StageWorkers : Deliver(w)
  \/ EmotionProcess
  \/ EmotionAck
  \/ RecommenderProcess
  \/ RecommenderAck
  \/ RecommenderLoopFails
  \/ RecommenderReconnects

LifetimeSpec == Init /\ [][LifetimeNext]_vars

\* The catalog loader against a film service of any size that may fail at any page,
\* and a database whose insert may raise.
LoaderNext ==
  \/ \E limit \in 1..MaxLimit, total_pages \in 0..MaxPages :
       LoaderStart(limit, total_pages)
  \/ \E results \in 0..PageSize,
        outcome \in {"ok", "request_error", "insert_error"} :
       LoaderIteration(results, outcome)

LoaderSpec == Init /\ [][LoaderNext]_vars

\* The page's poller against a server and a network that may answer anything.
PollerNext ==
  \/ \E t \in Tokens : StartPolling(t)
  \/ PollTick
  \/ \E outcome \in FetchOutcomes : PollResponse(outcome)

PollerSpec == Init /\ [][PollerNext]_vars /\ WF_vars(PollTick)

\* The gateway with its handler threads interleaved statement by statement (Flask
\* serves each request in a thread of its own).
ThreadNext ==
  \/ \E h \in Handlers, q \in Queries : RecommendCheck(h, q)
  \/ \E h \in Handlers : RecommendPublish(h)
  \/ BrokerDown
  \/ BrokerUp

ThreadSpec == Init /\ [][ThreadNext]_vars

\* The connection loop of the web app's two callers against a broker that comes and
\* goes.
ConnectNext ==
  \/ \E c \in Connectors : ConnectCall(c)
  \/ \E c \in Connectors : ConnectAttempt(c)
  \/ \E c \in Connectors : ConnectWake(c)
  \/ BrokerDown
  \/ BrokerUp

ConnectSpec == Init /\ [][ConnectNext]_vars

\* The system without infrastructure failure over a catalog larger than the limit of
\* the lookup.
CatalogNext ==
  \/ \E q \in Queries : recommend_published(q, FALSE)
  \/ \E w \in Consumers : Deliver(w)
  \/ EmotionProcess
  \/ EmotionAck
  \/ RecommenderProcessLarge
  \/ RecommenderAck
  \/ SinkStore
  \/ SinkAck
  \/ \E h \in Handlers, t \in Tokens : ClientPoll(h, t)
  \/ \E h \in Handlers : GetResultPop(h)

CatalogSpec == Init /\ [][CatalogNext]_vars

\* The gateway alone, its responses observed, with a broker that comes and goes.
GatewayNext ==
  \/ Submit
  \/ BrokerDown
  \/ BrokerUp

\* Clients keep submitting.
GatewaySpec == Init /\ [][GatewayNext]_vars /\ WF_vars(Submit)

\* The pipeline without infrastructure failure, fed by the gateway and by foreign
\* messages.
PoisonNext ==
  \/ \E w \in Consumers, kind \in PoisonKinds : Inject(w, kind)
  \/ \E q \in Queries : recommend_published(q, FALSE)
  \/ \E w \in Consumers : Deliver(w)
  \/ EmotionProcess
  \/ EmotionAck
  \/ RecommenderProcess
  \/ RecommenderAck
  \/ SinkStore
  \/ SinkAck

PoisonSpec == Init /\ [][PoisonNext]_vars

\* The pipeline and the polling clients, with foreign messages on the results queue.
SinkNext ==
  \/ \E kind \in PoisonKinds : Inject("sink", kind)
  \/ \E q \in Queries : recommend_published(q, FALSE)
  \/ \E w \in Consumers : Deliver(w)
  \/ EmotionProcess
  \/ EmotionAck
  \/ RecommenderProcess
  \/ RecommenderAck
  \/ SinkStore
  \/ SinkAck
  \/ \E h \in Handlers, t \in Tokens : ClientPoll(h, t)
  \/ \E h \in Handlers : GetResultPop(h)

SinkSpec == Init /\ [][SinkNext]_vars

\* Every path of the three callbacks: foreign bodies, invalid messages, capabilities
\* that fail, and the normal path.
SettleNext ==
  \/ PoisonNext
  \/ EmotionCapabilityFails
  \/ RecommenderCapabilityFails

SettleSpec == Init /\ [][SettleNext]_vars

\* The pipeline with capabilities that fail: the classifier answers or raises, the
\* database is reachable or not.
OutageNext ==
  \/ \E q \in Queries : recommend_published(q, FALSE)
  \/ \E w \in Consumers : Deliver(w)
  \/ EmotionProcess
  \/ EmotionCapabilityFails
  \/ EmotionAck
  \/ RecommenderProcess
  \/ RecommenderCapabilityFails
  \/ RecommenderAck
  \/ SinkStore
  \/ SinkAck

\* start_consuming of the workers and of the consumer thread: deliveries and callbacks
\* go on, and nothing obliges a capability ever to answer.
OutageSpec ==
  /\ Init
  /\ [][OutageNext]_vars
  /\ \A w \in Consumers : WF_vars(Deliver(w))
  /\ WF_vars(EmotionProcess \/ EmotionCapabilityFails)
  /\ WF_vars(EmotionAck)
  /\ WF_vars(RecommenderProcess \/ RecommenderCapabilityFails)
  /\ WF_vars(RecommenderAck)
  /\ WF_vars(SinkStore)
  /\ WF_vars(SinkAck)

\* ------------------------------------------------------------------ claims
OutputQueue(w) ==
  IF w = "emotion" THEN cola_emocion_detectada ELSE cola_resultados_finales

StageInvalid(w, data) ==
  IF w = "emotion" THEN EmotionInvalid(data) ELSE RecommenderInvalid(data)

\* The request ids of the messages queued in q.
IdsIn(q) == {Get(q[i], "request_id") : i \in DOMAIN q}

\* The request ids of the deliveries consumers hold unsettled.
IdsUnacked == {Get(wk[w].msg, "request_id") : w \in {c \in Consumers : wk[c].pc # "idle"}}

\* C1. Isolation: a ready response for a request id carries a list that was computed
\* for that same id, and every cached entry sits under the id it was computed for.
Isolation ==
  /\ lastResp.status = "ready" => lastResp.ghost.origin = lastResp.rid
  /\ \A t \in DOMAIN RESULTS_CACHE : RESULTS_CACHE[t].ghost.origin = t

\* A ready response was sent for one id while the result of another id was cached.
IsolationWitness ==
  /\ lastResp.status = "ready"
  /\ \E t \in DOMAIN RESULTS_CACHE : t # lastResp.rid

\* C2. At-most-once delivery to the client: get_result answers ready at most once per
\* request id, also when a redelivery produced duplicate terminal messages.
AtMostOnceReady == \A t \in Tokens : readyCount[t] <= 1

\* C3. Pop-once: a get_result call that starts after a ready response for the same id,
\* with no terminal message for the id stored in between, answers pending; an id
\* that was served is out of the cache until the sink writes it again.
PopOnce ==
  /\ lastResp.afterReady => lastResp.status = "pending"
  /\ \A t \in taken : t \notin DOMAIN RESULTS_CACHE

\* The second of two successive calls answered pending, after the first answered ready.
PopOnceWitness ==
  /\ lastResp.afterReady
  /\ lastResp.status = "pending"
  /\ readyCount[lastResp.rid] = 1

\* C4. take is atomic: no interleaving of the membership test and the pop of two
\* handlers makes a handler end in an error.
TakeAtomic == lastResp.status # "error"

\* C5. Idempotent result application: once the sink has stored a terminal message,
\* the entry of its id (while not yet taken) is that message's list, also when an
\* earlier terminal message of the same id was stored before; entries exist only
\* for ids the gateway handed out.
IdempotentStore ==
  /\ DOMAIN RESULTS_CACHE \subseteq accepted
  /\ (wk["sink"].pc = "stored" /\ ResultValid(wk["sink"].msg)
      /\ wk["sink"].msg.request_id \in DOMAIN RESULTS_CACHE)
     => RESULTS_CACHE[wk["sink"].msg.request_id].recommendations
          = wk["sink"].msg.recommendations

\* A second terminal message of an id was stored over a different first one.
IdempotentStoreWitness ==
  /\ overwrote
  /\ wk["sink"].pc = "stored"
  /\ wk["sink"].msg.request_id \in DOMAIN RESULTS_CACHE

\* C6. Publish-before-ack: a stage worker settles a valid delivery without requeue
\* only after it published, during that delivery, a message carrying the same
\* request id to its output queue.
PublishBeforeAck ==
  [][\A w \in StageWorkers :
       /\ (/\ wk[w].pc # "idle"
           /\ wk'[w].pc = "idle"
           /\ ~StageInvalid(w, wk[w].msg)
           /\ InputQueue(w)' = InputQueue(w))
          => wk[w].published
       /\ (~wk[w].published /\ wk'[w].published)
          => /\ Len(OutputQueue(w)') = Len(OutputQueue(w)) + 1
             /\ OutputQueue(w)'[Len(OutputQueue(w)')].request_id
                  = wk[w].msg.request_id]_vars

\* Both stage workers have acked a delivery whose output is queued for the sink.
PublishBeforeAckWitness ==
  /\ \A w \in StageWorkers : wk[w].pc = "idle" /\ InputQueue(w) = <<>>
  /\ cola_resultados_finales # <<>>
  /\ crashes = 0

\* C7. No loss under stage-worker crash: every accepted request id is queued, held
\* unacked by a consumer, cached, or was already returned as ready.
NoLoss ==
  \A t \in accepted :
    \/ t \in IdsIn(cola_estado_usuario)
    \/ t \in IdsIn(cola_emocion_detectada)
    \/ t \in IdsIn(cola_resultados_finales)
    \/ t \in IdsUnacked
    \/ t \in DOMAIN RESULTS_CACHE
    \/ readyCount[t] > 0

\* A stage worker crashed and the request it held still reached the cache.
NoLossWitness ==
  /\ crashes > 0
  /\ \E t \in accepted : t \in DOMAIN RESULTS_CACHE /\ readyCount[t] = 0

Eviction ==
  \A t \in Tokens : (t \in DOMAIN RESULTS_CACHE) ~> (t \notin DOMAIN RESULTS_CACHE)

\* The terminal messages in flight or stored, and the ready response: each with its
\* list and its history tag.
TerminalResults ==
  {[recommendations |-> cola_resultados_finales[i].recommendations,
    ghost |-> GhostOf(cola_resultados_finales[i])] :
      i \in {j \in DOMAIN cola_resultados_finales :
               "recommendations" \in DOMAIN cola_resultados_finales[j]}}
  \cup {RESULTS_CACHE[t] : t \in DOMAIN RESULTS_CACHE}
  \cup (IF lastResp.status = "ready"
        THEN {[recommendations |-> lastResp.recommendations, ghost |-> lastResp.ghost]}
        ELSE {})

\* The positions of a terminal result whose catalog row has a synopsis and whose
\* rewrite failed.
FellBack(r) ==
  {i \in DOMAIN r.recommendations :
     ~Falsy(CatalogRow(i).resumen) /\ i \notin r.ghost.rewritten}

\* A terminal message of request t with a fallen-back candidate is on its way to
\* the sink.
FallbackPublished(t) ==
  \E i \in DOMAIN cola_resultados_finales :
    /\ Get(cola_resultados_finales[i], "request_id") = t
    /\ "recommendations" \in DOMAIN cola_resultados_finales[i]
    /\ FellBack([recommendations |-> cola_resultados_finales[i].recommendations,
                 ghost |-> GhostOf(cola_resultados_finales[i])]) # {}

Strip(s) == IF s = "   " THEN "" ELSE s

\* A query that is missing, empty, or empty after trimming.
Blank(q) == Falsy(Strip(q))

\* C12. Empty-input rejection: a submit whose text is missing, empty or blank is
\* refused (400, or 503 while the channel is missing) with no request id in the
\* response, and no message with such a text is ever published.
EmptyInputRejected ==
  /\ (lastSubmit.code # 0 /\ Blank(lastSubmit.query))
       => (lastSubmit.code \in {400, 503} /\ lastSubmit.request_id = NoneVal)
  /\ \A i \in DOMAIN cola_estado_usuario : ~Blank(cola_estado_usuario[i].query)

\* C13. No silent drop at the gateway: a submit answered success with a request id has
\* appended exactly one persistent message with that id and its query to the first
\* queue, and nothing else appends to it; while the channel is missing or the
\* broker is unreachable, no submit is answered success, none returns a request
\* id and none publishes.
NoSilentDrop ==
  [][/\ (lastSubmit' # lastSubmit /\ lastSubmit'.code = 200)
          => /\ lastSubmit'.request_id \in Tokens \ IdsIn(cola_estado_usuario)
             /\ cola_estado_usuario' =
                  Append(cola_estado_usuario,
                         Persistent([query |-> lastSubmit'.query,
                                     request_id |-> lastSubmit'.request_id]))
     /\ cola_estado_usuario' # cola_estado_usuario
          => (lastSubmit' # lastSubmit /\ lastSubmit'.code = 200)
     /\ (RABBITMQ_CHANNEL_PUBLISH = NoneVal \/ broker = "down")
          => /\ cola_estado_usuario' = cola_estado_usuario
             /\ accepted' = accepted
             /\ lastSubmit' # lastSubmit
                  => (lastSubmit'.code \in {400, 500, 503}
                      /\ lastSubmit'.request_id = NoneVal)]_vars

\* One submit was answered success and published; a later one, made while the channel
\* is missing, was refused and published nothing.
NoSilentDropWitness ==
  /\ lastSubmit.code = 503
  /\ Cardinality(accepted) = 1
  /\ Len(cola_estado_usuario) = 1
  /\ IdsIn(cola_estado_usuario) = accepted

LastOut(w) == OutputQueue(w)[Len(OutputQueue(w))]

\* C15. Token propagation: the message a stage worker publishes carries the request id
\* of the message it is processing, the emotion worker forwards the query as it
\* came, and every id travelling through the queues is one the gateway minted and
\* handed out.
TokenPropagation ==
  /\ [](IdsIn(cola_estado_usuario) \cup IdsIn(cola_emocion_detectada)
          \cup IdsIn(cola_resultados_finales) \cup IdsUnacked \subseteq accepted)
  /\ [][\A w \in StageWorkers :
          (~wk[w].published /\ wk'[w].published)
            => /\ Len(OutputQueue(w)') = Len(OutputQueue(w)) + 1
               /\ LastOut(w)'.request_id = wk[w].msg.request_id
               /\ w = "emotion" => LastOut(w)'.query = wk[w].msg.query]_vars

\* The recommender worker has published the terminal message of an accepted request,
\* which the emotion worker had forwarded before.
TokenPropagationWitness ==
  /\ wk["recommender"].pc = "published"
  /\ wk["recommender"].msg.request_id \in accepted
  /\ wk["recommender"].msg.query = "me siento muy triste"
  /\ wk["recommender"].msg.request_id \in IdsIn(cola_resultados_finales)

\* The deliveries a consumer has handled to the end are those of the foreign messages
\* put on its queue: nothing else was submitted, nothing is queued or in flight.
OnlyForeignHandled ==
  /\ minted = {}
  /\ cola_estado_usuario = <<>>
  /\ cola_emocion_detectada = <<>>
  /\ cola_resultados_finales = <<>>
  /\ \A w \in Consumers : wk[w].pc = "idle"
  /\ RESULTS_CACHE = EmptyDict

\* C16. A stage worker that handles a delivery whose request_id is missing, null or
\* empty (or whose body gives no request_id at all) publishes nothing for it.
NoIdNoPublish ==
  [][\A w \in StageWorkers :
       (wk[w].pc = "recv" /\ Falsy(Get(wk[w].msg, "request_id")) /\ wk'[w] # wk[w])
         => /\ OutputQueue(w)' = OutputQueue(w)
            /\ ~wk'[w].published]_vars

\* A stage worker was handed an object without request_id, or with an empty one, and
\* has settled it; no queue holds a message.
NoIdNoPublishWitness ==
  /\ injected # {}
  /\ injected \subseteq StageWorkers \X {"no_id", "empty_id"}
  /\ OnlyForeignHandled

\* A body a stage worker cannot process: no JSON, JSON that is no object, or an object
\* that lacks a field the worker requires.
StagePoison(w, body) ==
  JSONDecodeError(body) \/ NotADict(body) \/ StageInvalid(w, body)

\* C17. Poison messages are never requeued by a stage worker: the callback that
\* handles one settles it and leaves its input queue as it is.
PoisonNotRequeued ==
  [][\A w \in StageWorkers :
       (wk[w].pc = "recv" /\ StagePoison(w, wk[w].msg) /\ wk'[w] # wk[w])
         => /\ wk'[w].pc = "idle"
            /\ InputQueue(w)' = InputQueue(w)]_vars

\* A body the result consumer cannot use: no JSON, JSON that is no object, or an object
\* without a request id.
SinkPoison(body) ==
  JSONDecodeError(body) \/ NotADict(body) \/ Falsy(Get(body, "request_id"))

\* C18. Poison at the result sink is never retried: the callback that handles a
\* malformed or token-less terminal message does not put it back on the queue and
\* leaves the cache as it is.
SinkPoisonDropped ==
  [][(wk["sink"].pc = "recv" /\ SinkPoison(wk["sink"].msg) /\ wk'["sink"] # wk["sink"])
       => /\ cola_resultados_finales' = cola_resultados_finales
          /\ RESULTS_CACHE' = RESULTS_CACHE]_vars

\* C19. An external capability that fails leads to a nack with requeue and to no
\* output: in particular the recommender worker publishes nothing for a delivery
\* whose catalog lookup raised. (The classifier raising and the database connection
\* failing are EmotionCapabilityFails and RecommenderCapabilityFails.)
LookupFailurePublishesNothing ==
  wk["recommender"].lookupRaised => ~wk["recommender"].published

\* The request ids of the messages that are queued or held unsettled.
IdsInFlight ==
  IdsIn(cola_estado_usuario) \cup IdsIn(cola_emocion_detectada)
    \cup IdsIn(cola_resultados_finales) \cup IdsUnacked

\* C20. Bounded redelivery: no message is requeued and redelivered forever; from some
\* point on each request id is out of the queues for good (processed or
\* dead-lettered), also when the capability its stage needs fails at every attempt.
BoundedRedelivery == \A t \in Tokens : <>[](t \notin IdsInFlight)

\* C21. One message at a time: a consumer never holds more than one delivery it has
\* neither acked nor nacked, and the broker hands it a message only when it holds
\* none.
OneAtATime ==
  /\ [](\A w \in Consumers : wk[w].unsettled <= 1)
  /\ [][\A w \in Consumers :
          wk'[w].unsettled > wk[w].unsettled
            => (wk[w].unsettled = 0 /\ wk[w].pc = "idle")]_vars

\* A consumer holds an unsettled delivery while a further message waits in its
\* queue.
OneAtATimeWitness ==
  \E w \in Consumers :
    /\ wk[w].unsettled = 1
    /\ InputQueue(w) # <<>>
    /\ wk[w].msg # Head(InputQueue(w))

\* C22. Queue-name agreement: each producer publishes under the name the next
\* component consumes from, so the message the gateway, the emotion worker or the
\* recommender worker publishes lands in the queue of the next consumer.
QueueNameAgreement ==
  /\ [](/\ QUEUE_NAME_EMOTION = ConsumedBy("emotion")
        /\ NEXT_QUEUE_NAME = ConsumedBy("recommender")
        /\ QUEUE_NAME_OUT = ConsumedBy("sink"))
  /\ [][/\ accepted' # accepted
            => Len(InputQueue("emotion")') = Len(InputQueue("emotion")) + 1
        /\ (~wk["emotion"].published /\ wk'["emotion"].published)
            => Len(InputQueue("recommender")') = Len(InputQueue("recommender")) + 1
        /\ (~wk["recommender"].published /\ wk'["recommender"].published)
            => Len(InputQueue("sink")') = Len(InputQueue("sink")) + 1]_vars

\* A message of a request went through both stage workers and is held by the result
\* consumer.
QueueNameAgreementWitness ==
  /\ wk["sink"].pc = "recv"
  /\ Get(wk["sink"].msg, "request_id") \in accepted
  /\ wk["emotion"].pc = "idle"
  /\ wk["recommender"].pc = "idle"

\* C23. get_result on an absent token has no side effect: a call for an id that is not
\* in the cache is answered pending at once, and the step that answers pending
\* leaves the cache, the queues and the consumers as they are; only a call for an
\* id that is in the cache goes on to the pop.
AbsentNoEffect ==
  [][/\ (lastResp' # lastResp /\ lastResp'.status = "pending")
          => /\ lastResp'.rid \notin DOMAIN RESULTS_CACHE
             /\ RESULTS_CACHE' = RESULTS_CACHE
             /\ queues' = queues
             /\ wk' = wk
             /\ hd' = hd
     /\ \A h \in Handlers :
          (hd[h].pc = "idle" /\ hd'[h].pc = "checked")
            => hd'[h].rid \in DOMAIN RESULTS_CACHE]_vars

\* A call for an id that was never submitted was answered pending while the result of
\* another request stayed in the cache.
AbsentNoEffectWitness ==
  /\ lastResp.status = "pending"
  /\ lastResp.rid \notin minted
  /\ RESULTS_CACHE # EmptyDict

\* C24. The poller terminates: it issues fewer than MAX_ATTEMPTS requests, and it
\* issues no request after a ready response, after the budget is exhausted, or
\* after a transport error.
PollerStops ==
  /\ [](poller.sent < MAX_ATTEMPTS)
  /\ [][poller'.sent > poller.sent => poller.events = {}]_vars

\* C25. Sink write-then-ack: the result consumer settles a well-formed terminal
\* message (request_id present, recommendations not null) without requeue only
\* after its store step, and that store step leaves the message's list in the
\* cache under the message's id.
WriteThenAck ==
  [][/\ (/\ wk["sink"].pc # "idle"
         /\ wk'["sink"].pc = "idle"
         /\ ResultValid(wk["sink"].msg)
         /\ cola_resultados_finales' = cola_resultados_finales)
        => (wk["sink"].pc = "stored" /\ wk["sink"].published)
     /\ (/\ ~wk["sink"].published
         /\ wk'["sink"].published
         /\ ResultValid(wk["sink"].msg))
        => /\ wk["sink"].msg.request_id \in DOMAIN RESULTS_CACHE'
           /\ RESULTS_CACHE'[wk["sink"].msg.request_id].recommendations
                = wk["sink"].msg.recommendations]_vars

\* A terminal message has been stored and acknowledged: the cache holds an entry
\* and nothing is queued for, or held by, the result consumer.
WriteThenAckWitness ==
  /\ RESULTS_CACHE # EmptyDict
  /\ wk["sink"].pc = "idle"
  /\ wk["sink"].unsettled = 0
  /\ cola_resultados_finales = <<>>
  /\ wk["recommender"].pc = "idle"

\* C26. Exclusive write ownership: an entry of the result cache appears or changes
\* only in the store step of the result consumer, for the id of the message it
\* holds; an entry disappears only in the pop of a get_result handler polling that
\* id, and that step leaves every other entry as it was; a step in which recommend
\* mints an id leaves the cache unchanged.
ExclusiveWrites ==
  [][/\ \A t \in DOMAIN RESULTS_CACHE' :
          (t \notin DOMAIN RESULTS_CACHE \/ RESULTS_CACHE'[t] # RESULTS_CACHE[t])
            => /\ wk["sink"].pc = "recv"
               /\ wk'["sink"].pc = "stored"
               /\ Get(wk["sink"].msg, "request_id") = t
     /\ \A t \in DOMAIN RESULTS_CACHE \ DOMAIN RESULTS_CACHE' :
          /\ \E h \in Handlers :
               hd[h].pc = "checked" /\ hd[h].rid = t /\ hd'[h].pc = "idle"
          /\ RESULTS_CACHE' = DictDel(RESULTS_CACHE, t)
     /\ minted' # minted => RESULTS_CACHE' = RESULTS_CACHE]_vars

\* One id was taken by a get_result call, and the entry of another id is in the cache.
ExclusiveWritesWitness ==
  \E t \in taken :
    /\ t \notin DOMAIN RESULTS_CACHE
    /\ DOMAIN RESULTS_CACHE # {}

\* C27. The result cache is the only state shared between concurrent handlers: while
\* a recommend handler is between its test of the publish channel and its publish,
\* no other handler assigns the channel.
ChannelNotShared ==
  [][\A h \in Handlers :
       (rq[h].pc = "publishing" /\ rq'[h].pc = "publishing")
         => RABBITMQ_CHANNEL_PUBLISH' = RABBITMQ_CHANNEL_PUBLISH]_vars

\* C28. Per-token stage ordering: every request id with a message in the
\* emotion-detected queue, or held by the recommender, has had a message published
\* to the user-state queue; every request id with a terminal message in the results
\* queue, held by the result consumer or entered in the cache has had a message
\* published to the emotion-detected queue (and so to the user-state queue).
StageOrdering ==
  /\ publishedTo[QUEUE_NAME_EMOTION] = accepted
  /\ publishedTo[NEXT_QUEUE_NAME] \subseteq publishedTo[QUEUE_NAME_EMOTION]
  /\ publishedTo[QUEUE_NAME_OUT] \subseteq publishedTo[NEXT_QUEUE_NAME]
  /\ IdsIn(cola_emocion_detectada) \subseteq publishedTo[NEXT_QUEUE_NAME]
  /\ wk["recommender"].pc # "idle"
       => Get(wk["recommender"].msg, "request_id") \in publishedTo[NEXT_QUEUE_NAME]
  /\ IdsIn(cola_resultados_finales) \subseteq publishedTo[QUEUE_NAME_OUT]
  /\ wk["sink"].pc # "idle"
       => Get(wk["sink"].msg, "request_id") \in publishedTo[QUEUE_NAME_OUT]
  /\ DOMAIN RESULTS_CACHE \subseteq publishedTo[QUEUE_NAME_OUT]

\* One request has gone through the three stages into the cache while the next is
\* past the emotion stage and not yet past the recommender.
StageOrderingWitness ==
  /\ RESULTS_CACHE # EmptyDict
  /\ \E u \in IdsIn(cola_emocion_detectada) : u \notin publishedTo[QUEUE_NAME_OUT]

\* C29. Gateway connection backoff: the delay slept after failed attempt i (i = 0..9)
\* is min(2^i, 30), that is 1, 2, 4, 8, 16, 30, 30, 30, 30, 30; a delay is never
\* shorter than the one before it and never longer than 30; the function raises
\* exactly when 10 attempts in a row have failed, and makes no further attempt.
ConnectionBackoff ==
  \A c \in Connectors :
    /\ conn[c].i \in 0..9
    /\ conn[c].failures > 0
         => /\ conn[c].slept = <<1, 2, 4, 8, 16, 30, 30, 30, 30, 30>>[conn[c].failures]
            /\ conn[c].slept >= conn[c].before
            /\ conn[c].slept <= 30
    /\ conn[c].pc = "raised" => conn[c].failures = 10
    /\ conn[c].failures = 10 => conn[c].pc \in {"sleeping", "raised"}
    /\ conn[c].failures <= 10

\* One caller gave up after its tenth failure, the other connected after some failures.
ConnectionBackoffWitness ==
  \E c, d \in Connectors :
    /\ conn[c].pc = "raised"
    /\ conn[d].pc = "connected"
    /\ conn[d].failures > 5

\* C30. At most K candidates, in lookup order: every terminal result (queued, cached
\* or returned ready) holds at most RecommendLimit = 5 candidates; it holds as many
\* as the catalog lookup returned, the i-th being the i-th row of the lookup, so
\* that personalization drops, duplicates and reorders nothing; scores descend.
AtMostKInOrder ==
  \A r \in TerminalResults :
    /\ Len(r.recommendations) <= 5
    /\ Len(r.recommendations) = r.ghost.found
    /\ \A i \in DOMAIN r.recommendations :
         /\ r.recommendations[i].titulo = CatalogRow(i).titulo
         /\ r.recommendations[i].score = CatalogRow(i).score
         /\ \A j \in DOMAIN r.recommendations :
              i < j => r.recommendations[i].score > r.recommendations[j].score

\* A ready response carries exactly K candidates, cut from a catalog of K + 1.
AtMostKInOrderWitness ==
  /\ lastResp.status = "ready"
  /\ Len(lastResp.recommendations) = RecommendLimit
  /\ lastResp.ghost.lookup = "rows"

\* C31. Every delivery is settled exactly once: a consumer is outside its callback
\* exactly when it holds no unsettled delivery, the count of unsettled deliveries
\* never goes below zero (no second settlement), and the step that ends a callback,
\* on the normal, the early-return and the exception paths alike, settles the one
\* delivery the consumer holds.
SettledOnce ==
  /\ [](\A w \in Consumers :
          /\ wk[w].unsettled \in {0, 1}
          /\ wk[w].pc = "idle" <=> wk[w].unsettled = 0)
  /\ [][\A w \in Consumers :
          (wk[w].pc # "idle" /\ wk'[w].pc = "idle")
            => (wk[w].unsettled = 1 /\ wk'[w].unsettled = 0)]_vars

\* The emotion worker took the early return on a foreign message without request id:
\* the message is gone from its queue, nothing was published, the worker is idle.
SettledOnceWitness ==
  /\ <<"emotion", "no_id">> \in injected
  /\ cola_estado_usuario = <<>>
  /\ wk["emotion"] = IdleWorker
  /\ publishedTo[NEXT_QUEUE_NAME] = {}

\* C32. Publish failure at the gateway: a submit whose basic_publish raises is
\* answered 500 without request id and its message is not published afterwards;
\* if the reconnect of that handler fails the channel becomes None; and once the
\* channel is None it stays None, every submit made from then on being answered
\* 503.
PublishFailure ==
  [][/\ (lastSubmit' # lastSubmit /\ lastSubmit'.code = 500)
          => /\ lastSubmit'.request_id = NoneVal
             /\ cola_estado_usuario' = cola_estado_usuario
             /\ broker = "down" => RABBITMQ_CHANNEL_PUBLISH' = NoneVal
     /\ RABBITMQ_CHANNEL_PUBLISH = NoneVal
          => /\ RABBITMQ_CHANNEL_PUBLISH' = NoneVal
             /\ (lastSubmit' # lastSubmit /\ rq' = rq) => lastSubmit'.code = 503]_vars

\* C33. Unavailability takes precedence over input validation: a submit made while
\* the publish channel is None is answered 503 without request id whatever its
\* query, the empty one included, and it mints no id and publishes nothing.
UnavailableFirst ==
  [][(RABBITMQ_CHANNEL_PUBLISH = NoneVal /\ lastSubmit' # lastSubmit)
       => /\ lastSubmit'.code = 503
          /\ lastSubmit'.request_id = NoneVal
          /\ minted' = minted
          /\ accepted' = accepted
          /\ queues' = queues
          /\ RABBITMQ_CHANNEL_PUBLISH' = NoneVal]_vars

\* A submit with an empty query was answered 503 while the channel was None.
UnavailableFirstWitness ==
  /\ lastSubmit.code = 503
  /\ lastSubmit.query = ""
  /\ RABBITMQ_CHANNEL_PUBLISH = NoneVal

\* C34. The result consumer thread is never restarted: once it has ended it stays
\* ended and holds no delivery; from then on the results queue is only appended
\* to, the cache gains no entry and no entry changes, and get_result answers ready
\* only for ids that are in the cache, so that every id not cached by then is
\* answered pending for good.
ConsumerNeverRestarted ==
  /\ [](consumer_thread = "dead" => wk["sink"].pc = "idle")
  /\ [][consumer_thread = "dead"
          => /\ consumer_thread' = "dead"
             /\ Len(cola_resultados_finales') >= Len(cola_resultados_finales)
             /\ SubSeq(cola_resultados_finales', 1, Len(cola_resultados_finales))
                  = cola_resultados_finales
             /\ \A t \in DOMAIN RESULTS_CACHE' :
                  t \in DOMAIN RESULTS_CACHE /\ RESULTS_CACHE'[t] = RESULTS_CACHE[t]
             /\ \A t \in Tokens :
                  readyCount'[t] > readyCount[t] => t \in DOMAIN RESULTS_CACHE
             /\ \A h \in Handlers :
                  (hd[h].pc = "idle" /\ hd'[h].pc = "checked")
                    => hd'[h].rid \in DOMAIN RESULTS_CACHE]_vars

\* The thread has ended, a terminal message waits in the results queue, and the
\* client polling for its id was answered pending.
ConsumerNeverRestartedWitness ==
  /\ consumer_thread = "dead"
  /\ lastResp.status = "pending"
  /\ lastResp.rid \in IdsIn(cola_resultados_finales)
  /\ lastResp.rid \notin DOMAIN RESULTS_CACHE

\* C35. The recommender's reconnect budget is cumulative: attempt counts every failure
\* of the consumer loop, never decreases, a successful reconnect included, and the
\* worker has left the loop exactly when attempt has reached 10; from then on it
\* takes no delivery.
CumulativeBudget ==
  /\ [](/\ recommender_main.attempt <= 10
        /\ recommender_main.pc = "exited" <=> recommender_main.attempt = 10
        /\ recommender_main.pc = "exited" => wk["recommender"].pc = "idle")
  /\ [][/\ recommender_main'.attempt >= recommender_main.attempt
        /\ (recommender_main.pc = "consuming" /\ recommender_main'.pc # "consuming")
             => recommender_main'.attempt = recommender_main.attempt + 1
        /\ (recommender_main.pc = "connecting" /\ recommender_main'.pc = "consuming")
             => recommender_main'.attempt = recommender_main.attempt]_vars

\* The worker has exited on its tenth failure although it had reconnected and
\* published a terminal message after its first failure; a message is left in its
\* input queue.
CumulativeBudgetWitness ==
  /\ recommender_main.pc = "exited"
  /\ recommender_main.attempt = max_retries_recommender
  /\ publishedTo[QUEUE_NAME_OUT] # recommender_main.publishedAtFirstFailure
  /\ cola_emocion_detectada # <<>>

\* A terminal message that is an object and lacks a usable request_id (missing, null
\* or empty) or has no recommendations (missing or null).
InvalidTerminal(body) ==
  /\ ~JSONDecodeError(body)
  /\ ~NotADict(body)
  /\ \/ Get(body, "request_id") \in {NoneVal, ""}
     \/ "recommendations" \notin DOMAIN body

\* C36. Result-sink validation: the callback of an invalid terminal message leaves the
\* cache and the results queue as they are and ends in an acknowledgement; the
\* callback of a message with a request_id and an empty recommendations list
\* stores the empty list under that id, from where get_result serves it as ready.
SinkValidation ==
  [][/\ (/\ wk["sink"].pc # "idle"
         /\ InvalidTerminal(wk["sink"].msg)
         /\ wk'["sink"] # wk["sink"])
        => /\ RESULTS_CACHE' = RESULTS_CACHE
           /\ cola_resultados_finales' = cola_resultados_finales
           /\ wk'["sink"].pc \in {"stored", "idle"}
     /\ (/\ wk["sink"].pc = "recv"
         /\ ~InvalidTerminal(wk["sink"].msg)
         /\ ~JSONDecodeError(wk["sink"].msg)
         /\ ~NotADict(wk["sink"].msg)
         /\ wk["sink"].msg.recommendations = <<>>
         /\ wk'["sink"] # wk["sink"])
        => /\ wk["sink"].msg.request_id \in DOMAIN RESULTS_CACHE'
           /\ RESULTS_CACHE'[wk["sink"].msg.request_id].recommendations = <<>>
     /\ \A h \in Handlers :
          (/\ hd[h].pc = "checked"
           /\ hd'[h].pc = "idle"
           /\ hd[h].rid \in DOMAIN RESULTS_CACHE)
            => /\ lastResp'.status = "ready"
               /\ lastResp'.recommendations
                    = RESULTS_CACHE[hd[h].rid].recommendations]_vars

\* An invalid terminal message was consumed and acknowledged without a trace in the
\* cache, and a request whose lookup found nothing was served ready with an empty
\* list.
SinkValidationWitness ==
  /\ injected # {}
  /\ injected \subseteq {"sink"} \X {"no_id", "empty_id", "only_id"}
  /\ cola_resultados_finales = <<>>
  /\ wk["sink"].pc = "idle"
  /\ DOMAIN RESULTS_CACHE \subseteq accepted
  /\ lastResp.status = "ready"
  /\ lastResp.recommendations = <<>>

\* C37. Poll count: for one submission the poller issues at most MAX_ATTEMPTS - 1 = 19
\* requests; the tick on which pollingAttempts reaches MAX_ATTEMPTS = 20 issues no
\* request, records the timeout and clears the timer; no request follows it, so
\* that what the server has only after the 19th request is not fetched.
PollCount ==
  /\ [](/\ MAX_ATTEMPTS = 20
        /\ poller.sent <= 19
        /\ poller.pollingAttempts <= 20
        /\ poller.sent <= poller.pollingAttempts)
  /\ [][/\ (poller.pollingAttempts < 20 /\ poller'.pollingAttempts = 20)
             => /\ poller'.sent = poller.sent
                /\ poller'.pollingInterval = NoneVal
                /\ "budget" \in poller'.events
        /\ "budget" \in poller.events => poller'.sent = poller.sent]_vars

\* The poller ran out of budget after 19 requests that were all answered pending.
PollCountWitness ==
  /\ poller.events = {"budget"}
  /\ poller.sent = 19
  /\ poller.inflight = 0
  /\ poller.pollingInterval = NoneVal

\* C38. Catalog loader accounting: total_loaded never exceeds limit, and when
\* fetch_and_store_movies has ended every film counted in total_loaded has been
\* handed to the database insert, the films of the last page included.
LoaderAccounting ==
  /\ loader.total_loaded <= loader.limit
  /\ loader.pc = "done" => loader.submitted = loader.total_loaded

====
